---- MODULE Spec2Model ----
(***************************************************************************)
(* Rectangle + Random Circles DXF Creator (src/main_Version10.py).         *)
(*                                                                         *)
(* State machine of RectangleApp: the stored rectangle, the circle         *)
(* collection, the view state (fit mode, manual px/mm, zoom) and the       *)
(* position and locals of the running placement handler.                   *)
(*                                                                         *)
(* Lengths are millimetres, as integers.  Diameters entered by the user    *)
(* are even, so that diam / 2.0 is the integer diam \div 2.                *)
(* random.uniform(a, b) is a choice among evenly spread points of [a, b],  *)
(* the low end always among them.                                          *)
(* The zoom factor is kept in thousandths (1.0 is 1000), products and      *)
(* quotients rounded to the nearest thousandth.                            *)
(* A text entry holds Num(v) (a number) or NaN (text tkinter cannot        *)
(* convert: reading it raises).                                            *)
(***************************************************************************)
EXTENDS Integers, Sequences, FiniteSets, TLC

VARIABLES
    rect,            \* self.rect: [x0_mm, y0_mm, w_mm, h_mm]
    circles,         \* self.circles: sequence of [cx_mm, cy_mm, d_mm]
    px_per_mm_var,   \* self.px_per_mm_var (entry: Num(v) or NaN)
    auto_fit_var,    \* self.auto_fit_var
    zoom_var,        \* self.zoom_var, in thousandths
    canvas_w,        \* self.canvas_w
    canvas_h,        \* self.canvas_h
    pc,              \* "idle", or the position of the running handler
    diam,            \* add_random_circles: diam
    count,           \* add_random_circles: count
    min_space,       \* add_random_circles / mix_circles: min_space
    diameters,       \* mix_circles: diameters (sorted, descending)
    i,               \* index of the slot (add) or diameter (mix) in progress
    attempts,        \* attempts of the slot in progress
    placed_this,     \* placed_this of the slot in progress
    placed,          \* placed
    new_circles,     \* new_circles
    msp,             \* save_dxf: msp, the entities added to the modelspace
    outcome,         \* history: what became of each slot processed so far
    lastOp           \* history: the handler that ran last, and how it ended

view == <<px_per_mm_var, auto_fit_var, zoom_var, canvas_w, canvas_h>>
locals == <<diam, count, min_space, diameters, i, attempts, placed_this,
            placed, new_circles, msp, outcome>>
vars == <<rect, circles, view, pc, locals, lastOp>>

----------------------------------------------------------------------------
(* Bounds of the model *)

NSamplesX == 1       \* random.uniform for cx: NSamplesX + 1 points
NSamplesY == 0       \* random.uniform for cy: NSamplesY + 1 points
MaxCircles == 3      \* circles are added while the collection stays this small
MaxCount == 2        \* largest count the user enters

----------------------------------------------------------------------------
(* Program constants *)

CANVAS_MIN_W == 800
CANVAS_MIN_H == 600
CANVAS_MARGIN_PX == 24
DefaultX0 == 10
DefaultY0 == 10
DefaultWidth == 800
DefaultHeight == 2000
DefaultPxPerMm == 3
MaxAttemptsAdd == 600
MaxAttemptsMix == 800
ZoomOne == 1000       \* zoom 1.0
ZoomMax == 10000      \* zoom 10.0
ZoomMin == 50         \* zoom 0.05

----------------------------------------------------------------------------
(* Entries *)

Num(v) == [num |-> TRUE, v |-> v]
NaN == [num |-> FALSE, v |-> 0]

X0Inputs == {NaN, Num(10)}
Y0Inputs == {Num(10)}
WidthInputs == {NaN, Num(0), Num(300), Num(800)}
HeightInputs == {Num(0), Num(2000)}
DiamInputs == {NaN, Num(0), Num(100), Num(400)}
CountInputs == {NaN} \cup {Num(k) : k \in 0..MaxCount}
SpaceInputs == {NaN, Num(-20), Num(0), Num(200)}
PxInputs == {NaN, Num(0), Num(2)}

----------------------------------------------------------------------------
(* Geometry *)

Radius(d) == d \div 2

Min(a, b) == IF a <= b THEN a ELSE b
Max(a, b) == IF a >= b THEN a ELSE b

\* random.uniform(a, b): n + 1 evenly spread points of [a, b]
Uniform(a, b, n) ==
    IF n = 0 THEN {a}
    ELSE {a + ((b - a) * k) \div n : k \in 0..n}

\* Infeasible with < for <=: a circle that exactly fills the clearance passes
Infeasible_Strict(rc, d, s) ==
    \/ rc.w_mm < 2 * (Radius(d) + s)
    \/ rc.h_mm < 2 * (Radius(d) + s)

\* w <= 2 * (r + min_space) or h <= 2 * (r + min_space)
Infeasible(rc, d, s) ==
    \/ rc.w_mm <= 2 * (Radius(d) + s)
    \/ rc.h_mm <= 2 * (Radius(d) + s)

\* Candidates with the spacing to the edges left out
Candidates_NoSpacing(rc, d, s) ==
    {<<cx, cy>> :
        cx \in Uniform(rc.x0_mm + Radius(d), rc.x0_mm + rc.w_mm - Radius(d),
                      NSamplesX),
        cy \in Uniform(rc.y0_mm + Radius(d), rc.y0_mm + rc.h_mm - Radius(d),
                      NSamplesY)}

\* the candidate centres of one draw
Candidates(rc, d, s) ==
    {<<cx, cy>> :
        cx \in Uniform(rc.x0_mm + Radius(d) + s, rc.x0_mm + rc.w_mm - Radius(d) - s,
                      NSamplesX),
        cy \in Uniform(rc.y0_mm + Radius(d) + s, rc.y0_mm + rc.h_mm - Radius(d) - s,
                      NSamplesY)}

\* TooClose with the spacing left out of min_allowed
TooClose_NoSpacing(cx, cy, d, c, s) ==
    LET min_allowed == Radius(d) + Radius(c.d_mm)
        dx == cx - c.cx_mm
        dy == cy - c.cy_mm
    IN  /\ min_allowed > 0
        /\ dx * dx + dy * dy < min_allowed * min_allowed

\* math.hypot(cx - c.cx, cy - c.cy) < r + c.d / 2 + min_space
TooClose(cx, cy, d, c, s) ==
    LET min_allowed == Radius(d) + Radius(c.d_mm) + s
        dx == cx - c.cx_mm
        dy == cy - c.cy_mm
    IN  /\ min_allowed > 0
        /\ dx * dx + dy * dy < min_allowed * min_allowed

\* the candidate passes the overlap loop over the sequence cs
ClearOf(cx, cy, d, cs, s) ==
    \A k \in 1..Len(cs) : ~TooClose(cx, cy, d, cs[k], s)

Circle(cx, cy, d) == [cx_mm |-> cx, cy_mm |-> cy, d_mm |-> d]

----------------------------------------------------------------------------
(* View *)

\* RedrawPx overwriting the entry in manual mode whatever it holds
RedrawPx_Overwrite(fit, px) ==
    IF fit THEN px ELSE Num(1)

\* compute_px_per_mm_and_offset, as redraw calls it: in manual mode an
\* entry that is not a positive number is overwritten with 1.0
RedrawPx(fit, px) ==
    IF fit THEN px
    ELSE IF px.num /\ px.v > 0 THEN px ELSE Num(1)

\* doc.modelspace() of a new document
NoEntities == [polylines |-> <<>>, circles |-> <<>>]

NoLocals ==
    /\ diam = 0 /\ count = 0 /\ min_space = 0 /\ diameters = <<>>
    /\ i = 0 /\ attempts = 0 /\ placed_this = FALSE /\ placed = 0
    /\ new_circles = <<>> /\ outcome = <<>>
    /\ msp = NoEntities

ClearLocals ==
    /\ diam' = 0 /\ count' = 0 /\ min_space' = 0 /\ diameters' = <<>>
    /\ i' = 0 /\ attempts' = 0 /\ placed_this' = FALSE /\ placed' = 0
    /\ new_circles' = <<>> /\ outcome' = <<>>
    /\ msp' = NoEntities

Init ==
    /\ rect = [x0_mm |-> DefaultX0, y0_mm |-> DefaultY0,
               w_mm |-> DefaultWidth, h_mm |-> DefaultHeight]
    /\ circles = <<>>
    /\ px_per_mm_var = Num(DefaultPxPerMm)
    /\ auto_fit_var = TRUE
    /\ zoom_var = ZoomOne
    /\ canvas_w = CANVAS_MIN_W
    /\ canvas_h = CANVAS_MIN_H
    /\ pc = "idle"
    /\ NoLocals
    /\ lastOp = "init"

----------------------------------------------------------------------------
(* Rectangle handlers *)

DefaultRect ==
    [x0_mm |-> DefaultX0, y0_mm |-> DefaultY0,
     w_mm |-> DefaultWidth, h_mm |-> DefaultHeight]

\* the try block of on_update_shape raises
UpdateRaises(x0e, y0e, we, he) ==
    \/ ~x0e.num \/ ~y0e.num \/ ~we.num \/ ~he.num
    \/ we.v <= 0 \/ he.v <= 0

on_update_shape(x0e, y0e, we, he) ==
    /\ pc = "idle"
    /\ IF UpdateRaises(x0e, y0e, we, he)
       THEN /\ lastOp' = "update_invalid"
            /\ UNCHANGED <<rect, circles, view, pc, locals>>
       ELSE /\ rect' = [x0_mm |-> x0e.v, y0_mm |-> y0e.v,
                        w_mm |-> we.v, h_mm |-> he.v]
            /\ px_per_mm_var' = RedrawPx(auto_fit_var, px_per_mm_var)
            /\ lastOp' = "update"
            /\ UNCHANGED <<circles, auto_fit_var, zoom_var, canvas_w, canvas_h,
                           pc, locals>>

clear_circles ==
    /\ pc = "idle"
    /\ circles' = <<>>
    /\ px_per_mm_var' = RedrawPx(auto_fit_var, px_per_mm_var)
    /\ lastOp' = "clear"
    /\ UNCHANGED <<rect, auto_fit_var, zoom_var, canvas_w, canvas_h, pc, locals>>

\* sets every entry to its default, then on_fit_toggle, on_update_shape
\* and clear_circles
reset_default ==
    /\ pc = "idle"
    /\ px_per_mm_var' = Num(DefaultPxPerMm)
    /\ zoom_var' = ZoomOne
    /\ auto_fit_var' = TRUE
    /\ rect' = DefaultRect
    /\ circles' = <<>>
    /\ lastOp' = "reset"
    /\ UNCHANGED <<canvas_w, canvas_h, pc, locals>>

----------------------------------------------------------------------------
(* add_random_circles *)

\* the try block of add_random_circles raises
AddRaises(de, ce, se) ==
    \/ ~de.num \/ ~ce.num \/ ~se.num
    \/ de.v <= 0 \/ ce.v <= 0 \/ se.v < 0

\* AddFinish replacing the collection, as mix_circles does
AddFinish_Replace(newc) ==
    /\ circles' = newc
    /\ px_per_mm_var' = RedrawPx(auto_fit_var, px_per_mm_var)
    /\ pc' = "add_ret"

\* lines 303-305: the new circles are appended and the canvas redrawn
AddFinish(newc) ==
    /\ circles' = circles \o newc
    /\ px_per_mm_var' = RedrawPx(auto_fit_var, px_per_mm_var)
    /\ pc' = "add_ret"

\* the handler up to its first draw: validation, feasibility, the locals
add_random_circles(de, ce, se) ==
    /\ pc = "idle"
    /\ IF AddRaises(de, ce, se)
       THEN /\ lastOp' = "add_invalid"
            /\ UNCHANGED <<rect, circles, view, pc, locals>>
       ELSE IF Infeasible(rect, de.v, se.v)
       THEN /\ lastOp' = "add_infeasible"
            /\ UNCHANGED <<rect, circles, view, pc, locals>>
       ELSE /\ Len(circles) + ce.v <= MaxCircles
            /\ diam' = de.v
            /\ count' = ce.v
            /\ min_space' = se.v
            /\ i' = 0
            /\ attempts' = 0
            /\ placed_this' = FALSE
            /\ placed' = 0
            /\ new_circles' = <<>>
            /\ outcome' = <<>>
            /\ pc' = "add_loop"
            /\ lastOp' = "add"
            /\ UNCHANGED <<rect, circles, view, diameters, msp>>

\* add_draw going on to the next slot when a slot is exhausted (no break)
add_draw_SkipAhead(cx, cy) ==
    /\ pc = "add_loop"
    /\ <<cx, cy>> \in Candidates(rect, diam, min_space)
    /\ IF ClearOf(cx, cy, diam, circles, min_space)
          /\ ClearOf(cx, cy, diam, new_circles, min_space)
       THEN /\ new_circles' = Append(new_circles, Circle(cx, cy, diam))
            /\ placed' = placed + 1
            /\ outcome' = Append(outcome, "placed")
            /\ IF i + 1 < count
               THEN /\ i' = i + 1
                    /\ attempts' = 0
                    /\ placed_this' = FALSE
                    /\ UNCHANGED <<circles, px_per_mm_var, pc>>
               ELSE /\ attempts' = attempts + 1
                    /\ placed_this' = TRUE
                    /\ i' = i
                    /\ AddFinish(new_circles')
       ELSE /\ UNCHANGED <<new_circles, placed, placed_this>>
            /\ IF attempts + 1 < MaxAttemptsAdd
               THEN /\ attempts' = attempts + 1
                    /\ UNCHANGED <<i, outcome, circles, px_per_mm_var, pc>>
               ELSE /\ outcome' = Append(outcome, "exhausted")
                    /\ IF i + 1 < count
                       THEN /\ i' = i + 1
                            /\ attempts' = 0
                            /\ UNCHANGED <<circles, px_per_mm_var, pc>>
                       ELSE /\ i' = i
                            /\ attempts' = attempts + 1
                            /\ AddFinish(new_circles)
    /\ UNCHANGED <<rect, auto_fit_var, zoom_var, canvas_w, canvas_h,
                   diam, count, min_space, diameters, msp, lastOp>>

\* add_draw with the budget tested after the draw (attempts <= 600): a slot
\* gets one more draw
add_draw_OneMore(cx, cy) ==
    /\ pc = "add_loop"
    /\ <<cx, cy>> \in Candidates(rect, diam, min_space)
    /\ IF ClearOf(cx, cy, diam, circles, min_space)
          /\ ClearOf(cx, cy, diam, new_circles, min_space)
       THEN /\ new_circles' = Append(new_circles, Circle(cx, cy, diam))
            /\ placed' = placed + 1
            /\ outcome' = Append(outcome, "placed")
            /\ IF i + 1 < count
               THEN /\ i' = i + 1
                    /\ attempts' = 0
                    /\ placed_this' = FALSE
                    /\ UNCHANGED <<circles, px_per_mm_var, pc>>
               ELSE /\ attempts' = attempts + 1
                    /\ placed_this' = TRUE
                    /\ i' = i
                    /\ AddFinish(new_circles')
       ELSE /\ attempts' = attempts + 1
            /\ UNCHANGED <<new_circles, placed, placed_this, i>>
            /\ IF attempts + 1 <= MaxAttemptsAdd
               THEN UNCHANGED <<outcome, circles, px_per_mm_var, pc>>
               ELSE /\ outcome' = Append(outcome, "exhausted")
                    /\ AddFinish(new_circles)
    /\ UNCHANGED <<rect, auto_fit_var, zoom_var, canvas_w, canvas_h,
                   diam, count, min_space, diameters, msp, lastOp>>

\* one pass of the while loop (one draw), and what follows it up to the
\* next draw or to the end of the handler
add_draw(cx, cy) ==
    /\ pc = "add_loop"
    /\ <<cx, cy>> \in Candidates(rect, diam, min_space)
    /\ IF ClearOf(cx, cy, diam, circles, min_space)
          /\ ClearOf(cx, cy, diam, new_circles, min_space)
       THEN /\ new_circles' = Append(new_circles, Circle(cx, cy, diam))
            /\ placed' = placed + 1
            /\ outcome' = Append(outcome, "placed")
            /\ IF i + 1 < count
               THEN /\ i' = i + 1
                    /\ attempts' = 0
                    /\ placed_this' = FALSE
                    /\ UNCHANGED <<circles, px_per_mm_var, pc>>
               ELSE /\ attempts' = attempts + 1
                    /\ placed_this' = TRUE
                    /\ i' = i
                    /\ AddFinish(new_circles')
       ELSE /\ attempts' = attempts + 1
            /\ UNCHANGED <<new_circles, placed, placed_this, i>>
            /\ IF attempts + 1 < MaxAttemptsAdd
               THEN UNCHANGED <<outcome, circles, px_per_mm_var, pc>>
               ELSE /\ outcome' = Append(outcome, "exhausted")
                    /\ AddFinish(new_circles)
    /\ UNCHANGED <<rect, auto_fit_var, zoom_var, canvas_w, canvas_h,
                   diam, count, min_space, diameters, msp, lastOp>>

\* the handler returns: its locals are gone
add_return ==
    /\ pc = "add_ret"
    /\ pc' = "idle"
    /\ ClearLocals
    /\ UNCHANGED <<rect, circles, view, lastOp>>

----------------------------------------------------------------------------
(* mix_circles *)

\* [c["d_mm"] for c in self.circles]
DiametersOf(cs) == [k \in 1..Len(cs) |-> cs[k].d_mm]

RECURSIVE InsertDesc(_, _)
InsertDesc(sorted, d) ==
    IF sorted = <<>> THEN <<d>>
    ELSE IF Head(sorted) >= d THEN <<Head(sorted)>> \o InsertDesc(Tail(sorted), d)
    ELSE <<d>> \o sorted

\* diameters.sort(reverse=True)
RECURSIVE SortDesc(_)
SortDesc(ds) ==
    IF ds = <<>> THEN <<>>
    ELSE InsertDesc(SortDesc(SubSeq(ds, 1, Len(ds) - 1)), ds[Len(ds)])

\* MixSkip leaving the for loop at the first infeasible diameter (break)
MixSkip_Break(ds, k, rc, s) ==
    IF k < Len(ds) /\ Infeasible(rc, ds[k + 1], s) THEN Len(ds) ELSE k

\* the for loop from position k on, as far as the next diameter that is
\* drawn for: every infeasible diameter before it is skipped (continue)
RECURSIVE MixSkip(_, _, _, _)
MixSkip(ds, k, rc, s) ==
    IF k < Len(ds) /\ Infeasible(rc, ds[k + 1], s)
    THEN MixSkip(ds, k + 1, rc, s)
    ELSE k

Skipped(n) == [k \in 1..n |-> "infeasible"]

\* the for loop goes on at position k: to the next draw, or past the last
\* diameter to lines 363-365 (the collection is replaced, the canvas redrawn)
MixContinue(ds, k, s, newc, outc) ==
    LET k2 == MixSkip(ds, k, rect, s)
    IN  /\ outcome' = outc \o Skipped(k2 - k)
        /\ i' = k2
        /\ IF k2 < Len(ds)
           THEN /\ attempts' = 0
                /\ placed_this' = FALSE
                /\ pc' = "mix_loop"
                /\ UNCHANGED <<circles, px_per_mm_var>>
           ELSE /\ UNCHANGED <<attempts, placed_this>>
                /\ circles' = newc
                /\ px_per_mm_var' = RedrawPx(auto_fit_var, px_per_mm_var)
                /\ pc' = "mix_ret"

\* the handler up to its first draw
mix_circles(se) ==
    /\ pc = "idle"
    /\ IF circles = <<>>
       THEN /\ lastOp' = "mix_empty"
            /\ UNCHANGED <<rect, circles, view, pc, locals>>
       ELSE IF ~se.num
       THEN /\ lastOp' = "mix_invalid"
            /\ UNCHANGED <<rect, circles, view, pc, locals>>
       ELSE /\ diameters' = SortDesc(DiametersOf(circles))
            /\ min_space' = se.v
            /\ new_circles' = <<>>
            /\ placed' = 0
            /\ MixContinue(diameters', 0, se.v, <<>>, <<>>)
            /\ lastOp' = "mix"
            /\ UNCHANGED <<rect, auto_fit_var, zoom_var, canvas_w, canvas_h,
                           diam, count, msp>>

\* mix_draw with placed_this never set: the while loop goes on drawing for
\* the diameter it has just placed
mix_draw_KeepsDrawing(cx, cy) ==
    /\ pc = "mix_loop"
    /\ <<cx, cy>> \in Candidates(rect, diameters[i + 1], min_space)
    /\ IF ClearOf(cx, cy, diameters[i + 1], new_circles, min_space)
       THEN /\ new_circles' = Append(new_circles, Circle(cx, cy, diameters[i + 1]))
            /\ placed' = placed + 1
            /\ IF attempts + 1 < MaxAttemptsMix
               THEN /\ attempts' = attempts + 1
                    /\ UNCHANGED <<placed_this, i, outcome, circles,
                                   px_per_mm_var, pc>>
               ELSE MixContinue(diameters, i + 1, min_space, new_circles',
                                Append(outcome, "placed"))
       ELSE /\ UNCHANGED <<new_circles, placed>>
            /\ IF attempts + 1 < MaxAttemptsMix
               THEN /\ attempts' = attempts + 1
                    /\ UNCHANGED <<placed_this, i, outcome, circles,
                                   px_per_mm_var, pc>>
               ELSE MixContinue(diameters, i + 1, min_space, new_circles,
                                Append(outcome, "exhausted"))
    /\ UNCHANGED <<rect, auto_fit_var, zoom_var, canvas_w, canvas_h,
                   diam, count, min_space, diameters, msp, lastOp>>

\* one pass of the while loop (one draw), and what follows it up to the
\* next draw or to the end of the handler
mix_draw(cx, cy) ==
    /\ pc = "mix_loop"
    /\ <<cx, cy>> \in Candidates(rect, diameters[i + 1], min_space)
    /\ IF ClearOf(cx, cy, diameters[i + 1], new_circles, min_space)
       THEN /\ new_circles' = Append(new_circles, Circle(cx, cy, diameters[i + 1]))
            /\ placed' = placed + 1
            /\ MixContinue(diameters, i + 1, min_space, new_circles',
                           Append(outcome, "placed"))
       ELSE /\ UNCHANGED <<new_circles, placed>>
            /\ IF attempts + 1 < MaxAttemptsMix
               THEN /\ attempts' = attempts + 1
                    /\ UNCHANGED <<placed_this, i, outcome, circles,
                                   px_per_mm_var, pc>>
               ELSE MixContinue(diameters, i + 1, min_space, new_circles,
                                Append(outcome, "exhausted"))
    /\ UNCHANGED <<rect, auto_fit_var, zoom_var, canvas_w, canvas_h,
                   diam, count, min_space, diameters, msp, lastOp>>

\* the handler returns: its locals are gone
mix_return ==
    /\ pc = "mix_ret"
    /\ pc' = "idle"
    /\ ClearLocals
    /\ UNCHANGED <<rect, circles, view, lastOp>>

----------------------------------------------------------------------------
(* The placement behaviours: the user edits the rectangle and places,    *)
(* mixes and clears circles, the view left as constructed.               *)

UpdateShape ==
    \E x0e \in X0Inputs, y0e \in Y0Inputs, we \in WidthInputs, he \in HeightInputs :
        on_update_shape(x0e, y0e, we, he)

AddCall ==
    \E de \in DiamInputs, ce \in CountInputs, se \in SpaceInputs :
        add_random_circles(de, ce, se)

AddDraw ==
    /\ pc = "add_loop"
    /\ \E c \in Candidates(rect, diam, min_space) : add_draw(c[1], c[2])

MixCall == \E se \in SpaceInputs : mix_circles(se)

MixDraw ==
    /\ pc = "mix_loop"
    /\ \E c \in Candidates(rect, diameters[i + 1], min_space) : mix_draw(c[1], c[2])

Next ==
    \/ UpdateShape
    \/ reset_default
    \/ clear_circles
    \/ AddCall
    \/ AddDraw
    \/ add_return
    \/ MixCall
    \/ MixDraw
    \/ mix_return

Spec == Init /\ [][Next]_vars

----------------------------------------------------------------------------
(* The placement behaviours with every entry valid: numbers, the          *)
(* rectangle's width and height and the diameter and count positive, the  *)
(* spacing not negative.                                                  *)

UpdateShapeValid ==
    \E x0e \in X0Inputs, y0e \in Y0Inputs, we \in WidthInputs, he \in HeightInputs :
        /\ ~UpdateRaises(x0e, y0e, we, he)
        /\ on_update_shape(x0e, y0e, we, he)

AddCallValid ==
    \E de \in DiamInputs, ce \in CountInputs, se \in SpaceInputs :
        /\ ~AddRaises(de, ce, se)
        /\ add_random_circles(de, ce, se)

MixCallValid ==
    \E se \in SpaceInputs :
        /\ se.num /\ se.v >= 0
        /\ mix_circles(se)

NextValid ==
    \/ UpdateShapeValid
    \/ clear_circles
    \/ reset_default
    \/ AddCallValid
    \/ AddDraw
    \/ add_return
    \/ MixCallValid
    \/ MixDraw
    \/ mix_return

SpecValid == Init /\ [][NextValid]_vars

----------------------------------------------------------------------------
(* Zoom and fit mode *)

\* cur *= 1.2, to the nearest thousandth
ZoomTimesStep(z) == (z * 12 + 5) \div 10

\* cur /= 1.2, to the nearest thousandth
ZoomOverStep(z) == (z * 10 + 6) \div 12

\* zoom_in without the clamp to 10.0
zoom_in_NoClamp ==
    /\ pc = "idle"
    /\ zoom_var' = ZoomTimesStep(zoom_var)
    /\ px_per_mm_var' = RedrawPx(auto_fit_var, px_per_mm_var)
    /\ lastOp' = "zoom_in"
    /\ UNCHANGED <<rect, circles, auto_fit_var, canvas_w, canvas_h, pc, locals>>

zoom_in ==
    /\ pc = "idle"
    /\ zoom_var' = Min(ZoomTimesStep(zoom_var), ZoomMax)
    /\ px_per_mm_var' = RedrawPx(auto_fit_var, px_per_mm_var)
    /\ lastOp' = "zoom_in"
    /\ UNCHANGED <<rect, circles, auto_fit_var, canvas_w, canvas_h, pc, locals>>

zoom_out ==
    /\ pc = "idle"
    /\ zoom_var' = Max(ZoomOverStep(zoom_var), ZoomMin)
    /\ px_per_mm_var' = RedrawPx(auto_fit_var, px_per_mm_var)
    /\ lastOp' = "zoom_out"
    /\ UNCHANGED <<rect, circles, auto_fit_var, canvas_w, canvas_h, pc, locals>>

zoom_reset ==
    /\ pc = "idle"
    /\ zoom_var' = ZoomOne
    /\ px_per_mm_var' = RedrawPx(auto_fit_var, px_per_mm_var)
    /\ lastOp' = "zoom_reset"
    /\ UNCHANGED <<rect, circles, auto_fit_var, canvas_w, canvas_h, pc, locals>>

\* the user clicks the auto-fit checkbox: the variable flips, then the command
on_fit_toggle ==
    /\ pc = "idle"
    /\ auto_fit_var' = ~auto_fit_var
    /\ px_per_mm_var' = RedrawPx(auto_fit_var', px_per_mm_var)
    /\ lastOp' = "fit_toggle"
    /\ UNCHANGED <<rect, circles, zoom_var, canvas_w, canvas_h, pc, locals>>

\* the user types into the manual px/mm entry (enabled in manual mode only)
px_entry_edit(e) ==
    /\ pc = "idle"
    /\ ~auto_fit_var
    /\ px_per_mm_var' = e
    /\ lastOp' = "px_edit"
    /\ UNCHANGED <<rect, circles, auto_fit_var, zoom_var, canvas_w, canvas_h,
                   pc, locals>>

----------------------------------------------------------------------------
(* Exact fractions: a scale, a device coordinate and an exported          *)
(* coordinate are quotients of integers, kept in lowest terms as          *)
(* [n |-> numerator, d |-> denominator > 0].                              *)

RECURSIVE GCD(_, _)
GCD(a, b) == IF b = 0 THEN a ELSE GCD(b, a % b)

Abs(k) == IF k < 0 THEN -k ELSE k

Rat(n, d) ==
    LET g == GCD(Abs(n), d)
    IN  [n |-> n \div g, d |-> d \div g]

RatInt(k) == [n |-> k, d |-> 1]

RatMul(a, b) == Rat(a.n * b.n, a.d * b.d)

RatDiv(a, b) == Rat(a.n * b.d, a.d * b.n)

RatAdd(a, b) ==
    LET g == GCD(a.d, b.d)
    IN  Rat(a.n * (b.d \div g) + b.n * (a.d \div g), (a.d \div g) * b.d)

RatSub(a, b) == RatAdd(a, [n |-> -b.n, d |-> b.d])

RatLeq(a, b) == a.n * b.d <= b.n * a.d

RatMin(a, b) == IF RatLeq(a, b) THEN a ELSE b

----------------------------------------------------------------------------
(* The view transform *)

\* the sizes the window system reports for the drawing surface
CanvasEvents == {<<0, 0>>, <<848, 648>>, <<198, 2020>>}

\* float(self.zoom_var.get())
ZoomFactor == Rat(zoom_var, ZoomOne)

\* compute_px_per_mm_and_offset with no offsets in auto-fit mode
compute_px_per_mm_and_offset_NoOffset ==
    LET manual_px == RedrawPx(auto_fit_var, px_per_mm_var).v
        avail_w == Max(1, canvas_w - 2 * CANVAS_MARGIN_PX)
        avail_h == Max(1, canvas_h - 2 * CANVAS_MARGIN_PX)
        base    == RatMin(Rat(avail_w, rect.w_mm), Rat(avail_h, rect.h_mm))
        base_px_per_mm == IF base.n <= 0 THEN RatInt(1) ELSE base
        auto_px == RatMul(base_px_per_mm, ZoomFactor)
    IN  IF auto_fit_var
        THEN [effective_px_per_mm |-> auto_px,
              x_offset_px |-> RatInt(0),
              y_offset_px |-> RatInt(0)]
        ELSE [effective_px_per_mm |-> RatMul(RatInt(manual_px), ZoomFactor),
              x_offset_px |-> RatInt(0),
              y_offset_px |-> RatInt(0)]

\* compute_px_per_mm_and_offset: what it returns in the current state.  The
\* rectangle's width and height are positive, so the floor 1e-6 leaves them;
\* the manual entry counts as 1.0 unless it is a positive number (RedrawPx is
\* the value the entry then holds).
compute_px_per_mm_and_offset ==
    LET manual_px == RedrawPx(auto_fit_var, px_per_mm_var).v
        avail_w == Max(1, canvas_w - 2 * CANVAS_MARGIN_PX)
        avail_h == Max(1, canvas_h - 2 * CANVAS_MARGIN_PX)
        base    == RatMin(Rat(avail_w, rect.w_mm), Rat(avail_h, rect.h_mm))
        base_px_per_mm == IF base.n <= 0 THEN RatInt(1) ELSE base
        auto_px == RatMul(base_px_per_mm, ZoomFactor)
    IN  IF auto_fit_var
        THEN [effective_px_per_mm |-> auto_px,
              x_offset_px |-> RatSub(RatInt(CANVAS_MARGIN_PX),
                                     RatMul(RatInt(rect.x0_mm), auto_px)),
              y_offset_px |-> RatSub(RatInt(CANVAS_MARGIN_PX),
                                     RatMul(RatInt(rect.y0_mm), auto_px))]
        ELSE [effective_px_per_mm |-> RatMul(RatInt(manual_px), ZoomFactor),
              x_offset_px |-> RatInt(0),
              y_offset_px |-> RatInt(0)]

mm_to_canvas_px(x_mm, y_mm, px_per_mm, x_offset_px, y_offset_px) ==
    <<RatAdd(RatMul(RatInt(x_mm), px_per_mm), x_offset_px),
      RatAdd(RatMul(RatInt(y_mm), px_per_mm), y_offset_px)>>

\* the surface is resized: <Configure> with event.width, event.height
on_canvas_configure(width, height) ==
    /\ pc = "idle"
    /\ canvas_w' = Max(1, width)
    /\ canvas_h' = Max(1, height)
    /\ px_per_mm_var' = RedrawPx(auto_fit_var, px_per_mm_var)
    /\ lastOp' = "canvas_configure"
    /\ UNCHANGED <<rect, circles, auto_fit_var, zoom_var, pc, locals>>

----------------------------------------------------------------------------
(* Export *)

\* what the save dialog returns: no path, or a path
PathInputs == {"", "out.dxf"}

\* the colour entry: text int() rejects, or a colour index
ColorInputs == {NaN, Num(7)}

\* the rectangle's corners p1, p2, p3, p4
pts_model ==
    << <<rect.x0_mm, rect.y0_mm>>,
       <<rect.x0_mm + rect.w_mm, rect.y0_mm>>,
       <<rect.x0_mm + rect.w_mm, rect.y0_mm + rect.h_mm>>,
       <<rect.x0_mm, rect.y0_mm + rect.h_mm>> >>

\* self.canvas_h / effective_px_per_mm (the scale is never zero)
canvas_h_mm ==
    RatDiv(RatInt(canvas_h), compute_px_per_mm_and_offset.effective_px_per_mm)

\* pts_dxf: the corners with y counted from the surface's bottom edge
pts_dxf ==
    [k \in 1..4 |-> <<RatInt(pts_model[k][1]),
                      RatSub(canvas_h_mm, RatInt(pts_model[k][2]))>>]

\* dxf_center with the y of the stored circle
dxf_center_NoFlip(c) ==
    <<RatInt(c.cx_mm), RatInt(c.cy_mm)>>

dxf_center(c) ==
    <<RatInt(c.cx_mm), RatSub(canvas_h_mm, RatInt(c.cy_mm))>>

\* save_dxf up to doc.saveas: the dialog, the colour, the polyline, then one
\* CIRCLE per circle.  Layer and colour attributes are not part of msp here.
save_dxf(path, color) ==
    /\ pc = "idle"
    /\ IF path = ""
       THEN /\ lastOp' = "save_cancelled"
            /\ UNCHANGED <<rect, circles, view, pc, locals>>
       ELSE IF ~color.num
       THEN /\ lastOp' = "save_error"
            /\ UNCHANGED <<rect, circles, view, pc, locals>>
       ELSE /\ px_per_mm_var' = RedrawPx(auto_fit_var, px_per_mm_var)
            /\ msp' = [polylines |-> <<[points |-> pts_dxf, close |-> TRUE]>>,
                       circles |-> [k \in 1..Len(circles) |->
                                      [center |-> dxf_center(circles[k]),
                                       radius |-> Radius(circles[k].d_mm)]]]
            /\ pc' = "save_ret"
            /\ lastOp' = "save_dxf"
            /\ UNCHANGED <<rect, circles, auto_fit_var, zoom_var, canvas_w,
                           canvas_h, diam, count, min_space, diameters, i,
                           attempts, placed_this, placed, new_circles,
                           outcome>>

\* doc.saveas and the return: the locals are gone
save_return ==
    /\ pc = "save_ret"
    /\ pc' = "idle"
    /\ ClearLocals
    /\ UNCHANGED <<rect, circles, view, lastOp>>

----------------------------------------------------------------------------
(* The view behaviours: the user zooms, switches the fit mode, edits the  *)
(* manual scale and the rectangle, resizes the window and exports.  They  *)
(* start with no circle or with one that add_random_circles places        *)
(* (diameter 100, spacing 0).                                             *)

ViewInitCircles ==
    {<<>>, <<Circle(60, 60, 100)>>, <<Circle(100, 100, 100)>>}

InitView ==
    /\ rect = DefaultRect
    /\ circles \in ViewInitCircles
    /\ px_per_mm_var = Num(DefaultPxPerMm)
    /\ auto_fit_var = TRUE
    /\ zoom_var = ZoomOne
    /\ canvas_w = CANVAS_MIN_W
    /\ canvas_h = CANVAS_MIN_H
    /\ pc = "idle"
    /\ NoLocals
    /\ lastOp = "init"

PxEdit == \E e \in PxInputs : px_entry_edit(e)

CanvasConfigure == \E ev \in CanvasEvents : on_canvas_configure(ev[1], ev[2])

SaveDxf == \E path \in PathInputs, color \in ColorInputs : save_dxf(path, color)

NextView ==
    \/ zoom_in
    \/ zoom_out
    \/ zoom_reset
    \/ on_fit_toggle
    \/ PxEdit
    \/ UpdateShape
    \/ reset_default
    \/ CanvasConfigure
    \/ SaveDxf
    \/ save_return

SpecView == InitView /\ [][NextView]_vars

----------------------------------------------------------------------------
(* Properties *)

\* distance(a.center, b.center) >= a.radius + b.radius + s
Apart(a, b, s) ==
    LET m == a.d_mm \div 2 + b.d_mm \div 2 + s
        dx == a.cx_mm - b.cx_mm
        dy == a.cy_mm - b.cy_mm
    IN  m <= 0 \/ dx * dx + dy * dy >= m * m

\* the positions in circles of the circles the running add_random_circles placed
NewIndexes == (Len(circles) - placed + 1)..Len(circles)

\* C1, as claimed: when add_random_circles has extended the collection, every
\* two circles of it, the ones that were there before the call included, are
\* at least their radii plus the call's spacing apart; so are every two
\* circles of the collection mix_circles has installed.
C1_NoOverlapEveryPair ==
    pc \in {"add_ret", "mix_ret"} =>
        \A a, b \in 1..Len(circles) :
            a # b => Apart(circles[a], circles[b], min_space)

\* C1, amended: when add_random_circles has extended the collection, every
\* pair of circles with at least one placed by this call is at least the radii
\* plus the call's spacing apart (two circles that were both there before the
\* call are not checked again); every two circles of the collection
\* mix_circles has installed are.
C1_NoOverlapPlacedPairs ==
    /\ pc = "add_ret" =>
        \A a \in 1..Len(circles), b \in NewIndexes :
            a # b => Apart(circles[a], circles[b], min_space)
    /\ pc = "mix_ret" =>
        \A a, b \in 1..Len(circles) :
            a # b => Apart(circles[a], circles[b], min_space)

\* add_random_circles has placed two circles next to one that was there
C1_Witness ==
    /\ pc = "add_ret"
    /\ placed = 2
    /\ Len(circles) = 3
    /\ min_space = 200

\* the centre of c keeps the clearance r + s to the four edges of rc
InClearance(c, rc, s) ==
    /\ rc.x0_mm + c.d_mm \div 2 + s <= c.cx_mm
    /\ c.cx_mm <= rc.x0_mm + rc.w_mm - c.d_mm \div 2 - s
    /\ rc.y0_mm + c.d_mm \div 2 + s <= c.cy_mm
    /\ c.cy_mm <= rc.y0_mm + rc.h_mm - c.d_mm \div 2 - s

\* C2: every circle add_random_circles or mix_circles accepts has its centre
\* in [x0+r+s, x0+w-r-s] x [y0+r+s, y0+h-r-s], for the rectangle and the
\* spacing of that call.
C2_EdgeClearance ==
    /\ pc \in {"add_loop", "add_ret", "mix_loop", "mix_ret"} =>
        \A k \in 1..Len(new_circles) : InClearance(new_circles[k], rect, min_space)
    /\ pc = "add_ret" =>
        \A k \in NewIndexes : InClearance(circles[k], rect, min_space)
    /\ pc = "mix_ret" =>
        \A k \in 1..Len(circles) : InClearance(circles[k], rect, min_space)

\* mix_circles has placed two circles with a spacing of 200
C2_Witness ==
    /\ pc = "mix_ret"
    /\ Len(circles) = 2
    /\ min_space = 200

\* C3: a call of add_random_circles with valid parameters such that
\* diameter/2 + minSpacing >= min(width, height)/2 returns at once: no
\* candidate is drawn, no circle is placed, the collection is as it was.
C3_FeasibilityGate ==
    [][\A de \in DiamInputs, ce \in CountInputs, se \in SpaceInputs :
        ( /\ de.num /\ ce.num /\ se.num
          /\ de.v > 0 /\ ce.v > 0 /\ se.v >= 0
          /\ de.v + 2 * se.v >= Min(rect.w_mm, rect.h_mm)
          /\ add_random_circles(de, ce, se) )
        => ( /\ pc' = "idle"
             /\ circles' = circles
             /\ attempts' = 0
             /\ new_circles' = <<>>
             /\ placed' = 0 )]_vars

\* add_random_circles has returned at the feasibility check, circles in place
C3_Witness ==
    /\ lastOp = "add_infeasible"
    /\ pc = "idle"
    /\ circles # <<>>

\* C4, as claimed: on_update_shape, add_random_circles and mix_circles, run
\* with an entry that is no number or is out of range (width <= 0,
\* height <= 0, diameter <= 0, count <= 0, minSpacing < 0), return at once
\* and leave the rectangle and the collection as they were; a mix_circles
\* with a negative spacing never changes the collection.
C4_InvalidInputAborts ==
    [][/\ \A x0e \in X0Inputs, y0e \in Y0Inputs, we \in WidthInputs, he \in HeightInputs :
            ( /\ \/ ~x0e.num \/ ~y0e.num \/ ~we.num \/ ~he.num
                 \/ we.v <= 0 \/ he.v <= 0
              /\ on_update_shape(x0e, y0e, we, he) )
            => (pc' = "idle" /\ rect' = rect /\ circles' = circles)
       /\ \A de \in DiamInputs, ce \in CountInputs, se \in SpaceInputs :
            ( /\ \/ ~de.num \/ ~ce.num \/ ~se.num
                 \/ de.v <= 0 \/ ce.v <= 0 \/ se.v < 0
              /\ add_random_circles(de, ce, se) )
            => (pc' = "idle" /\ rect' = rect /\ circles' = circles)
       /\ \A se \in SpaceInputs :
            (~se.num /\ mix_circles(se))
            => (pc' = "idle" /\ rect' = rect /\ circles' = circles)
       /\ (pc' \in {"mix_loop", "mix_ret"} /\ min_space' < 0)
            => (rect' = rect /\ circles' = circles)]_vars

\* C5: add_random_circles takes the slots in order and draws for a slot only
\* while every slot before it was accepted; when a slot has used its 600
\* draws the handler ends there, the circles accepted so far appended; the
\* number placed is at most count, and is count only if every slot was
\* accepted.
C5_EarlyExit ==
    /\ pc = "add_loop" =>
        /\ i < count
        /\ attempts < MaxAttemptsAdd
        /\ outcome = [k \in 1..i |-> "placed"]
        /\ placed = i
    /\ pc = "add_ret" =>
        /\ placed = Len(new_circles)
        /\ placed <= count
        /\ SubSeq(circles, Len(circles) - placed + 1, Len(circles)) = new_circles
        /\ placed = count <=> outcome = [k \in 1..count |-> "placed"]
        /\ placed < count =>
            /\ outcome = [k \in 1..placed |-> "placed"] \o <<"exhausted">>
            /\ attempts = MaxAttemptsAdd
            /\ i = placed

\* the first of two slots has used its draws: the second was never drawn for
C5_Witness ==
    /\ pc = "add_ret"
    /\ count = 2
    /\ outcome = <<"exhausted">>

\* how often the diameter d occurs in the collection cs
Occurrences(cs, d) == Cardinality({k \in 1..Len(cs) : cs[k].d_mm = d})

\* C6: mix_circles replaces the collection by the circles it placed; no
\* diameter occurs in it more often than before the call, so it is no longer
\* than before; and whether a candidate is accepted depends on the circles
\* placed in this call alone, never on where the old circles lie.
C6_RepackPreservesDiameters ==
    [][/\ (pc' = "mix_ret" /\ pc # "mix_ret") =>
            /\ circles' = new_circles'
            /\ Len(circles') <= Len(circles)
            /\ \A k \in 1..Len(circles') :
                 Occurrences(circles', circles'[k].d_mm)
                     <= Occurrences(circles, circles'[k].d_mm)
       /\ pc = "mix_loop" =>
            \A c \in Candidates(rect, diameters[i + 1], min_space) :
                mix_draw(c[1], c[2]) =>
                    ( new_circles' # new_circles
                      <=> \A k \in 1..Len(new_circles) :
                            Apart(Circle(c[1], c[2], diameters[i + 1]),
                                  new_circles[k], min_space) )]_vars

\* mix_circles has placed some of the circles and dropped another
C6_Witness ==
    /\ pc = "mix_ret"
    /\ circles # <<>>
    /\ Len(circles) < Len(diameters)

\* the diameters of ds whose slot ended as "placed", in order
RECURSIVE Kept(_, _)
Kept(ds, outc) ==
    IF ds = <<>> \/ outc = <<>> THEN <<>>
    ELSE IF Head(outc) = "placed"
         THEN <<Head(ds)>> \o Kept(Tail(ds), Tail(outc))
         ELSE Kept(Tail(ds), Tail(outc))

\* C7: mix_circles takes the diameters in non-increasing order; a diameter
\* that is infeasible or uses its 800 draws is dropped alone and every later
\* one is still taken: at the end each diameter has been placed, found
\* infeasible (exactly when d/2 + s >= min(w, h)/2) or exhausted, and the
\* collection holds the placed ones.
C7_SkipAndContinue ==
    pc \in {"mix_loop", "mix_ret"} =>
        /\ \A k \in 1..(Len(diameters) - 1) : diameters[k] >= diameters[k + 1]
        /\ Len(outcome) = i
        /\ \A k \in 1..Len(outcome) :
             outcome[k] = "infeasible"
                <=> diameters[k] + 2 * min_space >= Min(rect.w_mm, rect.h_mm)
        /\ DiametersOf(new_circles) = Kept(diameters, outcome)
        /\ pc = "mix_loop" =>
             /\ i < Len(diameters)
             /\ attempts < MaxAttemptsMix
             /\ diameters[i + 1] + 2 * min_space < Min(rect.w_mm, rect.h_mm)
        /\ pc = "mix_ret" =>
             /\ i = Len(diameters)
             /\ circles = new_circles

\* the larger diameter was infeasible, the smaller one after it was placed
C7_Witness ==
    /\ pc = "mix_ret"
    /\ outcome = <<"infeasible", "placed">>

\* C8: add_random_circles never removes, reorders or alters a circle: a call
\* that returns at its checks leaves the collection as it was, the draws
\* leave it as it was, and the end of the loop appends the new circles to it.
C8_AppendOnly ==
    [][/\ AddCall => circles' = circles
       /\ pc = "add_loop" =>
            IF pc' = "add_ret"
            THEN circles' = circles \o new_circles'
            ELSE circles' = circles
       /\ pc = "add_ret" => circles' = circles]_vars

\* one of two requested circles was placed, next to one that was there
C8_Witness ==
    /\ pc = "add_ret"
    /\ count = 2
    /\ placed = 1
    /\ Len(circles) = 2

ZoomInRange == ZoomMin <= zoom_var /\ zoom_var <= ZoomMax

\* C9: from zoom 1.0, whatever zoom_in, zoom_out, zoom_reset and
\* reset_default do, the zoom stays in [0.05, 10.0]; a zoom_in below 10.0
\* raises it or takes it to 10.0 exactly, and at 10.0 leaves it there (so
\* repeated zoom_in reaches 10.0 and stays); a zoom_out above 0.05 lowers
\* it or takes it to 0.05 exactly, and at 0.05 leaves it there.
C9_ZoomClamp ==
    /\ ZoomInRange
    /\ [][/\ ZoomInRange'
          /\ zoom_in =>
               /\ zoom_var' = ZoomMax \/ zoom_var' > zoom_var
               /\ zoom_var = ZoomMax => zoom_var' = ZoomMax
          /\ zoom_out =>
               /\ zoom_var' = ZoomMin \/ zoom_var' < zoom_var
               /\ zoom_var = ZoomMin => zoom_var' = ZoomMin]_vars

\* zoom_in has taken the zoom to 10.0
C9_Witness ==
    /\ lastOp = "zoom_in"
    /\ zoom_var = ZoomMax

ZoomStep == zoom_in \/ zoom_out \/ zoom_reset

\* C10, as claimed: zoom_in, zoom_out and zoom_reset leave the rectangle, the
\* collection, the fit mode and the manual px/mm entry as they were, in
\* either fit mode and whatever the entry holds.
C10_ZoomChangesZoomOnly ==
    [][ZoomStep =>
         /\ rect' = rect
         /\ circles' = circles
         /\ auto_fit_var' = auto_fit_var
         /\ px_per_mm_var' = px_per_mm_var]_vars

\* C10, amended: zoom_in, zoom_out and zoom_reset leave the rectangle, the
\* collection and the fit mode as they were; they leave the manual px/mm
\* entry as it was in auto-fit mode, and in manual mode when it holds a
\* positive number; in manual mode an entry that holds no number or a number
\* <= 0 is overwritten with 1.0 by the redraw they end with.
C10_ZoomChangesZoomAndBadPx ==
    [][ZoomStep =>
         /\ rect' = rect
         /\ circles' = circles
         /\ auto_fit_var' = auto_fit_var
         /\ px_per_mm_var' =
              IF auto_fit_var \/ (px_per_mm_var.num /\ px_per_mm_var.v > 0)
              THEN px_per_mm_var
              ELSE Num(1)]_vars

\* a zoom_out in manual mode, the entry at 2 px/mm, a circle in a rectangle
\* the user has narrowed
C10_Witness ==
    /\ lastOp = "zoom_out"
    /\ ~auto_fit_var
    /\ px_per_mm_var = Num(2)
    /\ circles # <<>>
    /\ rect.w_mm = 300

\* surface height / effective scale
CanvasHeightMm ==
    RatDiv(RatInt(canvas_h), compute_px_per_mm_and_offset.effective_px_per_mm)

\* (x, CanvasHeightMm - y)
Flipped(x, y) == <<RatInt(x), RatSub(CanvasHeightMm, RatInt(y))>>

AutoFitScale ==
    LET sx == Rat(Max(1, canvas_w - 2 * 24), rect.w_mm)
        sy == Rat(Max(1, canvas_h - 2 * 24), rect.h_mm)
    IN  RatMul(IF RatLeq(sx, sy) THEN sx ELSE sy, Rat(zoom_var, ZoomOne))

\* C12: in auto-fit mode compute_px_per_mm_and_offset returns the scale
\* min(max(1, surfaceW - 2*margin) / width, max(1, surfaceH - 2*margin) / height) * zoom
\* and the offsets (margin - x0 * scale, margin - y0 * scale), so that
\* mm_to_canvas_px maps the rectangle's minimum corner to (margin, margin);
\* for an 800 x 2000 rectangle on an 848 x 648 surface with margin 24 and
\* zoom 1 the scale is 0.3.
C12_AutoFitTransform ==
    auto_fit_var =>
        LET t == compute_px_per_mm_and_offset
        IN  /\ t.effective_px_per_mm = AutoFitScale
            /\ t.x_offset_px =
                  RatSub(RatInt(24), RatMul(RatInt(rect.x0_mm), AutoFitScale))
            /\ t.y_offset_px =
                  RatSub(RatInt(24), RatMul(RatInt(rect.y0_mm), AutoFitScale))
            /\ mm_to_canvas_px(rect.x0_mm, rect.y0_mm, t.effective_px_per_mm,
                               t.x_offset_px, t.y_offset_px)
                  = <<RatInt(24), RatInt(24)>>
            /\ (/\ rect.w_mm = 800 /\ rect.h_mm = 2000
                /\ canvas_w = 848 /\ canvas_h = 648
                /\ zoom_var = ZoomOne)
               => t.effective_px_per_mm = Rat(3, 10)

\* the surface has been resized to 848 x 648 and redrawn in auto-fit mode,
\* with the 800 x 2000 rectangle at zoom 1
C12_Witness ==
    /\ auto_fit_var
    /\ lastOp = "canvas_configure"
    /\ rect.w_mm = 800 /\ rect.h_mm = 2000
    /\ canvas_w = 848 /\ canvas_h = 648
    /\ zoom_var = ZoomOne
    /\ compute_px_per_mm_and_offset.effective_px_per_mm = Rat(3, 10)

\* draws add_random_circles may still make: 600 per slot not yet finished,
\* less the draws made for the slot in progress
AddDrawsLeft == (count - i) * 600 - attempts

\* draws mix_circles may still make: 800 per diameter not yet finished, less
\* the draws made for the diameter in progress
MixDrawsLeft == (Len(diameters) - i) * 800 - attempts

\* while a handler is drawing, its slot has had fewer than 600 (800) draws,
\* draws are left within 600 * count (800 per existing circle), and the
\* sampler has a point to return
RetriesInBudget ==
    /\ pc = "add_loop" =>
          /\ i < count /\ attempts < 600
          /\ AddDrawsLeft > 0 /\ AddDrawsLeft <= 600 * count
          /\ Candidates(rect, diam, min_space) # {}
    /\ pc = "add_ret" => attempts <= 600
    /\ pc = "mix_loop" =>
          /\ i < Len(diameters) /\ attempts < 800
          /\ Len(diameters) = Len(circles)
          /\ MixDrawsLeft > 0 /\ MixDrawsLeft <= 800 * Len(circles)
          /\ Candidates(rect, diameters[i + 1], min_space) # {}
    /\ pc = "mix_ret" => attempts < 800

\* every draw uses up at least one of the draws left, and an accepted
\* candidate ends its slot
DrawUsesBudget ==
    /\ pc = "add_loop" =>
          /\ pc' \in {"add_loop", "add_ret"}
          /\ pc' = "add_loop" => AddDrawsLeft' < AddDrawsLeft
          /\ (pc' = "add_loop" /\ i' = i) => attempts' = attempts + 1
          /\ Len(new_circles') > Len(new_circles) =>
                \/ pc' = "add_ret"
                \/ i' = i + 1 /\ attempts' = 0
    /\ pc = "mix_loop" =>
          /\ pc' \in {"mix_loop", "mix_ret"}
          /\ pc' = "mix_loop" => MixDrawsLeft' < MixDrawsLeft
          /\ (pc' = "mix_loop" /\ i' = i) => attempts' = attempts + 1
          /\ Len(new_circles') > Len(new_circles) =>
                \/ pc' = "mix_ret"
                \/ i' > i /\ attempts' = 0

\* C13: whatever the sampler returns, add_random_circles makes at most 600
\* draws per requested slot (at most 600 * count in all) and mix_circles at
\* most 800 draws per existing circle, each draw bringing the handler nearer
\* its end, and a slot's draws stop at its first accepted candidate.
C13_BoundedRetries == []RetriesInBudget /\ [][DrawUsesBudget]_vars

\* add_random_circles has ended after a slot that took one draw and a slot
\* that used up its 600 draws
C13_Witness ==
    /\ pc = "add_ret"
    /\ outcome = <<"placed", "exhausted">>
    /\ attempts = 600

\* C14: every circle of the collection lies fully inside the stored
\* rectangle: x0 + r <= cx <= x0 + w - r and y0 + r <= cy <= y0 + h - r.
C14_Containment ==
    \A k \in 1..Len(circles) :
        LET c == circles[k]
            r == c.d_mm \div 2
        IN  /\ rect.x0_mm + r <= c.cx_mm
            /\ c.cx_mm <= rect.x0_mm + rect.w_mm - r
            /\ rect.y0_mm + r <= c.cy_mm
            /\ c.cy_mm <= rect.y0_mm + rect.h_mm - r
====
